---- MODULE Spec2Model ----
(***************************************************************************)
(* Model of httpmocker (src/mocker.go): a Server value holding a rule      *)
(* store (Responses: method -> path -> ordered bucket of *Response), the   *)
(* registration operations (Launch, AddResponses, Add, AddEmptyResponse),  *)
(* the matching function findResponse, the dispatcher handleRequest, the   *)
(* optional Logger and UnknownRequestHandler, and the Start/Close          *)
(* lifecycle of the embedded httptest server.                              *)
(***************************************************************************)
EXTENDS Integers, Sequences, FiniteSets, TLC

VARIABLES Server, Responses, URL, Logger, UnknownRequestHandler,
          registered, panicked, last

vars == <<Server, Responses, URL, Logger, UnknownRequestHandler,
          registered, panicked, last>>

(* ------------------------------ bounds --------------------------------- *)

\* at most this many rules are registered in one run
MaxRules == 2
\* at most this many arguments in one variadic Launch/AddResponses call
MaxArgs == 2

(* ------------------------------ values --------------------------------- *)

\* Go's nil for the pointer / interface / func fields
Nil == "nil"

\* a nil http.Header (Response.Headers left unset)
NilHeaders == [k \in {} |-> <<>>]

\* the zero value of Server.Responses (a nil map) and the map made by Launch
NilMap == [isNil |-> TRUE, m |-> [k \in {} |-> <<>>]]
EmptyMap == [isNil |-> FALSE, m |-> [k \in {} |-> <<>>]]

\* a Response literal; ptr is the address &r taken by AddResponses (0: not stored)
Response(method, path, query, code, ctype, body, headers, handler) ==
    [ptr |-> 0, Method |-> method, Path |-> path, Query |-> query, Code |-> code,
     ContentType |-> ctype, Body |-> body, Headers |-> headers, Handler |-> handler]

\* the nil *Response returned by findResponse
NilResponse == Response("", "", "", 0, "", "", NilHeaders, Nil)

\* Response literals a caller passes to Launch / AddResponses
Pool ==
    { Response("GET", "/hello", "", 200, "text/plain", "hello, world",
               [k \in {"X-Custom-Header"} |-> <<"custom header from mock">>], Nil),
      Response("GET", "/hello", "dummy=1", 200, "", "hello, world with query string",
               NilHeaders, Nil),
      Response("GET", "/hello", "", 0, "", "", NilHeaders, "customHandler"),
      Response("GET", "/hello", "", 404, "text/plain", "static body",
               [k \in {"X-Custom-Header"} |-> <<"custom header from mock">>],
               "customHandler"),
      Response("GET", "/hello", "", 200, "", "lower",
               [k \in {"x-custom-header"} |-> <<"custom header from mock">>], Nil),
      Response("GET", "/hello", "", 200, "text/plain", "json",
               [k \in {"Content-Type"} |-> <<"application/json">>], Nil),
      Response("GET", "/hello", "", 0, "", "two keys",
               [k \in {"X-A", "x-a"} |-> IF k = "X-A" THEN <<"1", "2">> ELSE <<"3">>],
               Nil),
      Response("", "/hello", "", 200, "", "no method", NilHeaders, Nil),
      Response("GET", "", "", 200, "", "no path", NilHeaders, Nil) }

\* arguments of Add / AddEmptyResponse
AddMethods == {"GET"}
AddPaths == {"/hello"}
AddCodes == {201}
AddBodies == {"created"}

\* what an inbound request carries: the method token of a request line is never
\* empty; the path is empty for an authority-form (CONNECT host:port) or
\* absolute-form (GET http://host) target
ReqMethods == {"GET", "POST"}
ReqPaths == {"", "/hello"}
ReqQueries == {"", "dummy=1", "dummy=2"}

Request(method, path, rawQuery) == [Method |-> method, Path |-> path, RawQuery |-> rawQuery]
NoRequest == Request("", "", "")

\* argument lists of length 0..n over S
RECURSIVE ArgLists(_, _)
ArgLists(S, n) ==
    IF n = 0 THEN {<<>>}
    ELSE LET shorter == ArgLists(S, n - 1)
         IN shorter \cup {Append(a, x) : a \in {b \in shorter : Len(b) = n - 1}, x \in S}

\* the orders in which a range over a Go map may visit its keys
RECURSIVE KeyOrders(_)
KeyOrders(K) ==
    IF K = {} THEN {<<>>}
    ELSE UNION {{<<k>> \o o : o \in KeyOrders(K \ {k})} : k \in K}

(* ------------------------- response writer calls ----------------------- *)

\* one call made during a dispatch, on the ResponseWriter, the Logger or a handler
Call(op, key, val, code) == [op |-> op, key |-> key, val |-> val, code |-> code]

\* http.Header.Get / Set canonicalise the key (textproto.CanonicalMIMEHeaderKey)
CanonicalMIMEHeaderKey(k) ==
    CASE k = "x-custom-header" -> "X-Custom-Header"
      [] k = "content-type" -> "Content-Type"
      [] k = "x-a" -> "X-A"
      [] OTHER -> k

\* http.Header.Get(k): first value stored under the canonical form of k, or ""
HeaderGet(h, k) ==
    LET ck == CanonicalMIMEHeaderKey(k)
    IN IF ck \in DOMAIN h /\ Len(h[ck]) > 0 THEN h[ck][1] ELSE ""

\* header.Set(k, v) on the response header
HeaderSet(k, v) == Call("Header.Set", CanonicalMIMEHeaderKey(k), v, 0)

(* ------------------------------ rule store ----------------------------- *)

\* variant: the bucket is replaced by the new entry instead of extended
AddOne_ReplaceBucket(responses, r) ==
    LET m == IF r.Method \in DOMAIN responses.m
             THEN responses.m[r.Method] ELSE [k \in {} |-> <<>>]
        m2 == [p \in DOMAIN m \cup {r.Path} |->
                 IF p = r.Path THEN <<r>> ELSE m[p]]
    IN [isNil |-> FALSE,
        m |-> [k \in DOMAIN responses.m \cup {r.Method} |->
                 IF k = r.Method THEN m2 ELSE responses.m[k]]]

\* one iteration of the loop of AddResponses: append &r to the bucket of
\* (r.Method, r.Path), creating the method map and the bucket when absent
AddOne(responses, r) ==
    LET m == IF r.Method \in DOMAIN responses.m
             THEN responses.m[r.Method] ELSE [k \in {} |-> <<>>]
        resps == IF r.Path \in DOMAIN m THEN m[r.Path] ELSE <<>>
        m2 == [p \in DOMAIN m \cup {r.Path} |->
                 IF p = r.Path THEN Append(resps, r) ELSE m[p]]
    IN [isNil |-> FALSE,
        m |-> [k \in DOMAIN responses.m \cup {r.Method} |->
                 IF k = r.Method THEN m2 ELSE responses.m[k]]]

\* AddResponses: the loop over the arguments; the i-th argument gets address
\* base + i.  Writing into a nil Responses map is a run-time panic.
RECURSIVE AddLoop(_, _, _, _)
AddLoop(responses, rs, i, base) ==
    IF i > Len(rs) THEN responses
    ELSE AddLoop(AddOne(responses, [rs[i] EXCEPT !.ptr = base + i]), rs, i + 1, base)

AddResponsesPanics(responses, rs) == responses.isNil /\ Len(rs) > 0

\* the bucket of (method, path), empty when either map has no entry
Bucket(responses, method, path) ==
    IF method \in DOMAIN responses.m /\ path \in DOMAIN responses.m[method]
    THEN responses.m[method][path] ELSE <<>>

(* ------------------------------ matching ------------------------------- *)

\* variant: the first empty-query rule stays the candidate
RECURSIVE Scan_KeepFirstCandidate(_, _, _, _, _)
Scan_KeepFirstCandidate(resps, i, path, rawQuery, candidate) ==
    IF i > Len(resps) THEN candidate
    ELSE LET resp == resps[i]
         IN IF resp.Path = path
            THEN LET cand == IF resp.Query = "" /\ candidate.ptr = 0
                             THEN resp ELSE candidate
                 IN IF resp.Query # "" /\ resp.Query = rawQuery
                    THEN resp
                    ELSE Scan_KeepFirstCandidate(resps, i + 1, path, rawQuery, cand)
            ELSE Scan_KeepFirstCandidate(resps, i + 1, path, rawQuery, candidate)

\* variant: an exact query match is only remembered, the scan goes on
RECURSIVE Scan_NoEarlyReturn(_, _, _, _, _)
Scan_NoEarlyReturn(resps, i, path, rawQuery, candidate) ==
    IF i > Len(resps) THEN candidate
    ELSE LET resp == resps[i]
         IN IF resp.Path = path
            THEN LET cand == IF resp.Query = "" \/ resp.Query = rawQuery
                             THEN resp ELSE candidate
                 IN Scan_NoEarlyReturn(resps, i + 1, path, rawQuery, cand)
            ELSE Scan_NoEarlyReturn(resps, i + 1, path, rawQuery, candidate)

\* variant: an empty-query rule is a candidate only for a request without query
RECURSIVE Scan_ExactQueryOnly(_, _, _, _, _)
Scan_ExactQueryOnly(resps, i, path, rawQuery, candidate) ==
    IF i > Len(resps) THEN candidate
    ELSE LET resp == resps[i]
         IN IF resp.Path = path
            THEN LET cand == IF resp.Query = "" /\ rawQuery = ""
                             THEN resp ELSE candidate
                 IN IF resp.Query # "" /\ resp.Query = rawQuery
                    THEN resp
                    ELSE Scan_ExactQueryOnly(resps, i + 1, path, rawQuery, cand)
            ELSE Scan_ExactQueryOnly(resps, i + 1, path, rawQuery, candidate)

\* the loop of findResponse over one bucket, from index i on
RECURSIVE Scan(_, _, _, _, _)
Scan(resps, i, path, rawQuery, candidate) ==
    IF i > Len(resps) THEN candidate
    ELSE LET resp == resps[i]
         IN IF resp.Path = path
            THEN LET cand == IF resp.Query = "" THEN resp ELSE candidate
                 IN IF resp.Query # "" /\ resp.Query = rawQuery
                    THEN resp
                    ELSE Scan(resps, i + 1, path, rawQuery, cand)
            ELSE Scan(resps, i + 1, path, rawQuery, candidate)

\* variant: a method without rules falls back to the rules of the empty method
findResponse_WildcardMethod(responses, r) ==
    LET method == IF r.Method \in DOMAIN responses.m THEN r.Method ELSE ""
    IN IF method \notin DOMAIN responses.m THEN NilResponse
       ELSE LET m == responses.m[method]
                resps == IF r.Path \in DOMAIN m THEN m[r.Path] ELSE <<>>
            IN IF Len(resps) = 0 THEN NilResponse
               ELSE Scan(resps, 1, r.Path, r.RawQuery, NilResponse)

findResponse(responses, r) ==
    IF r.Method \notin DOMAIN responses.m THEN NilResponse
    ELSE LET m == responses.m[r.Method]
             resps == IF r.Path \in DOMAIN m THEN m[r.Path] ELSE <<>>
         IN IF Len(resps) = 0 THEN NilResponse
            ELSE Scan(resps, 1, r.Path, r.RawQuery, NilResponse)

(* ------------------------------ dispatch ------------------------------- *)

\* Server.logf: one Logf call when a Logger is set, nothing otherwise
logf(logger, msg) == IF logger # Nil THEN <<Call("Logf", msg, "", 0)>> ELSE <<>>

\* the range over resp.Headers, visiting the keys in the given order
RECURSIVE HeaderLoop(_, _, _)
HeaderLoop(headers, order, i) ==
    IF i > Len(order) THEN <<>>
    ELSE <<HeaderSet(order[i], HeaderGet(headers, order[i]))>>
         \o HeaderLoop(headers, order, i + 1)

\* variant: an unmatched request without fallback handler is answered 404
handleRequest_NotFoundDefault(resp, logger, unknown, order) ==
    IF resp.ptr = 0
    THEN logf(logger, "unknown request: %s %s")
         \o (IF unknown # Nil THEN <<Call("UnknownRequestHandler", unknown, "", 0)>>
             ELSE <<Call("WriteHeader", "", "", 404)>>)
    ELSE IF resp.Handler # Nil
    THEN <<Call("Handler", resp.Handler, "", 0)>>
    ELSE <<HeaderSet("Content-Type", resp.ContentType)>>
         \o HeaderLoop(resp.Headers, order, 1)
         \o (IF resp.Code # 0 THEN <<Call("WriteHeader", "", "", resp.Code)>> ELSE <<>>)
         \o <<Call("WriteString", "", resp.Body, 0)>>
         \o logf(logger, "handler : %s %s -> %+v")

\* variant: the static status is written before the Handler is consulted
handleRequest_StaticBeforeHandler(resp, logger, unknown, order) ==
    IF resp.ptr = 0
    THEN logf(logger, "unknown request: %s %s")
         \o (IF unknown # Nil THEN <<Call("UnknownRequestHandler", unknown, "", 0)>>
             ELSE <<>>)
    ELSE (IF resp.Code # 0 THEN <<Call("WriteHeader", "", "", resp.Code)>> ELSE <<>>)
         \o (IF resp.Handler # Nil
             THEN <<Call("Handler", resp.Handler, "", 0)>>
             ELSE <<HeaderSet("Content-Type", resp.ContentType)>>
                  \o HeaderLoop(resp.Headers, order, 1)
                  \o <<Call("WriteString", "", resp.Body, 0)>>
                  \o logf(logger, "handler : %s %s -> %+v"))

\* variant: an empty ContentType is not written
handleRequest_SkipEmptyContentType(resp, logger, unknown, order) ==
    IF resp.ptr = 0
    THEN logf(logger, "unknown request: %s %s")
         \o (IF unknown # Nil THEN <<Call("UnknownRequestHandler", unknown, "", 0)>>
             ELSE <<>>)
    ELSE IF resp.Handler # Nil
    THEN <<Call("Handler", resp.Handler, "", 0)>>
    ELSE (IF resp.ContentType # "" THEN <<HeaderSet("Content-Type", resp.ContentType)>>
          ELSE <<>>)
         \o HeaderLoop(resp.Headers, order, 1)
         \o (IF resp.Code # 0 THEN <<Call("WriteHeader", "", "", resp.Code)>> ELSE <<>>)
         \o <<Call("WriteString", "", resp.Body, 0)>>
         \o logf(logger, "handler : %s %s -> %+v")

\* variant: the log line of a static response is emitted before the response
handleRequest_LogFirst(resp, logger, unknown, order) ==
    IF resp.ptr = 0
    THEN logf(logger, "unknown request: %s %s")
         \o (IF unknown # Nil THEN <<Call("UnknownRequestHandler", unknown, "", 0)>>
             ELSE <<>>)
    ELSE IF resp.Handler # Nil
    THEN <<Call("Handler", resp.Handler, "", 0)>>
    ELSE logf(logger, "handler : %s %s -> %+v")
         \o <<HeaderSet("Content-Type", resp.ContentType)>>
         \o HeaderLoop(resp.Headers, order, 1)
         \o (IF resp.Code # 0 THEN <<Call("WriteHeader", "", "", resp.Code)>> ELSE <<>>)
         \o <<Call("WriteString", "", resp.Body, 0)>>

\* the calls handleRequest makes, in order, once findResponse returned resp
handleRequest(resp, logger, unknown, order) ==
    IF resp.ptr = 0
    THEN logf(logger, "unknown request: %s %s")
         \o (IF unknown # Nil THEN <<Call("UnknownRequestHandler", unknown, "", 0)>>
             ELSE <<>>)
    ELSE IF resp.Handler # Nil
    THEN <<Call("Handler", resp.Handler, "", 0)>>
    ELSE <<HeaderSet("Content-Type", resp.ContentType)>>
         \o HeaderLoop(resp.Headers, order, 1)
         \o (IF resp.Code # 0 THEN <<Call("WriteHeader", "", "", resp.Code)>> ELSE <<>>)
         \o <<Call("WriteString", "", resp.Body, 0)>>
         \o logf(logger, "handler : %s %s -> %+v")

(* ------------------------------ lifecycle ------------------------------ *)

\* httptest.Server.Close: stops the server; a no-op once closed
httptestClose(s) == "closed"

\* variant: no nil check, so a Server that was never started is dereferenced
Close_NoNilCheck(server) ==
    IF server # Nil
    THEN [Server |-> httptestClose(server), panic |-> FALSE]
    ELSE [Server |-> server, panic |-> TRUE]

\* Server.Close: the new inner server and whether the call panicked
Close(server) ==
    IF server # Nil
    THEN [Server |-> httptestClose(server), panic |-> FALSE]
    ELSE [Server |-> server, panic |-> FALSE]

(* ------------------------------- state --------------------------------- *)

Outcome(op, req, resp, calls) == [op |-> op, req |-> req, resp |-> resp, calls |-> calls]

\* the zero value Server{}
Init ==
    /\ Server = Nil
    /\ Responses = NilMap
    /\ URL = ""
    /\ Logger = Nil
    /\ UnknownRequestHandler = Nil
    /\ registered = <<>>
    /\ panicked = FALSE
    /\ last = Outcome("new", NoRequest, NilResponse, <<>>)

\* registration of rs on the current store (AddResponses and its callers)
Register(op, rs) ==
    /\ ~panicked
    /\ Len(registered) + Len(rs) <= MaxRules
    /\ IF AddResponsesPanics(Responses, rs)
       THEN /\ panicked' = TRUE
            /\ UNCHANGED <<Responses, registered>>
       ELSE /\ Responses' = AddLoop(Responses, rs, 1, Len(registered))
            /\ registered' = registered \o
                   [i \in 1..Len(rs) |-> [rs[i] EXCEPT !.ptr = Len(registered) + i]]
            /\ UNCHANGED panicked
    /\ last' = Outcome(op, NoRequest, NilResponse, <<>>)
    /\ UNCHANGED <<Server, URL, Logger, UnknownRequestHandler>>

\* Launch(responses...): a fresh Server with an empty map, the rules, then Start
Launch ==
    \E rs \in ArgLists(Pool, MaxArgs) :
        /\ last.op = "new"
        /\ Len(rs) <= MaxRules
        /\ Responses' = AddLoop(EmptyMap, rs, 1, 0)
        /\ registered' = [i \in 1..Len(rs) |-> [rs[i] EXCEPT !.ptr = i]]
        /\ Server' = "open"
        /\ URL' = "http://127.0.0.1"
        /\ last' = Outcome("Launch", NoRequest, NilResponse, <<>>)
        /\ UNCHANGED <<Logger, UnknownRequestHandler, panicked>>

AddResponses == \E rs \in ArgLists(Pool, MaxArgs) : Register("AddResponses", rs)

Add ==
    \E method \in AddMethods, path \in AddPaths, code \in AddCodes, body \in AddBodies :
        Register("Add", <<Response(method, path, "", code, "", body, NilHeaders, Nil)>>)

AddEmptyResponse ==
    \E method \in AddMethods, path \in AddPaths, code \in AddCodes :
        Register("AddEmptyResponse",
                 <<Response(method, path, "", code, "", "", NilHeaders, Nil)>>)

Start ==
    /\ ~panicked
    /\ Server' = "open"
    /\ URL' = "http://127.0.0.1"
    /\ last' = Outcome("Start", NoRequest, NilResponse, <<>>)
    /\ UNCHANGED <<Responses, Logger, UnknownRequestHandler, registered, panicked>>

CloseServer ==
    /\ ~panicked
    /\ Server' = Close(Server).Server
    /\ panicked' = Close(Server).panic
    /\ last' = Outcome("Close", NoRequest, NilResponse, <<>>)
    /\ UNCHANGED <<Responses, URL, Logger, UnknownRequestHandler, registered>>

\* server.Logger = l  (a caller's write of the exported field)
SetLogger ==
    \E l \in {Nil, "logger"} :
        /\ ~panicked
        /\ Logger # l
        /\ Logger' = l
        /\ last' = Outcome("SetLogger", NoRequest, NilResponse, <<>>)
        /\ UNCHANGED <<Server, Responses, URL, UnknownRequestHandler, registered, panicked>>

\* server.UnknownRequestHandler = h
SetUnknownRequestHandler ==
    \E h \in {Nil, "unknownHandler"} :
        /\ ~panicked
        /\ UnknownRequestHandler # h
        /\ UnknownRequestHandler' = h
        /\ last' = Outcome("SetUnknownRequestHandler", NoRequest, NilResponse, <<>>)
        /\ UNCHANGED <<Server, Responses, URL, Logger, registered, panicked>>

\* the running httptest server hands one request to handleRequest
Dispatch ==
    \E method \in ReqMethods, path \in ReqPaths, rawQuery \in ReqQueries :
        LET r == Request(method, path, rawQuery)
            resp == findResponse(Responses, r)
        IN \E order \in KeyOrders(DOMAIN resp.Headers) :
            /\ ~panicked
            /\ Server = "open"
            /\ last' = Outcome("handleRequest", r, resp,
                               handleRequest(resp, Logger, UnknownRequestHandler, order))
            /\ UNCHANGED <<Server, Responses, URL, Logger, UnknownRequestHandler,
                           registered, panicked>>

Next ==
    \/ Launch
    \/ AddResponses
    \/ Add
    \/ AddEmptyResponse
    \/ Start
    \/ CloseServer
    \/ SetLogger
    \/ SetUnknownRequestHandler
    \/ Dispatch

Spec == Init /\ [][Next]_vars

(* --------------------- what a client observes -------------------------- *)

Max(S) == CHOOSE x \in S : \A y \in S : y <= x
Min(S) == CHOOSE x \in S : \A y \in S : x <= y

\* the calls of one kind made during the last dispatch, in order
CallsOf(op) == SelectSeq(last.calls, LAMBDA c : c.op = op)

\* the calls of the last dispatch that are not log lines
NonLogCalls == SelectSeq(last.calls, LAMBDA c : c.op # "Logf")

\* resp.StatusCode: the code given to WriteHeader, 200 when none was given
ResponseStatus == IF CallsOf("WriteHeader") # <<>> THEN CallsOf("WriteHeader")[1].code ELSE 200

\* the response body: what was written with io.WriteString
ResponseBody == [i \in 1..Len(CallsOf("WriteString")) |-> CallsOf("WriteString")[i].val]

\* the positions of the Header.Set calls on the canonical form of k
HeaderSets(k) ==
    {i \in 1..Len(last.calls) :
        last.calls[i].op = "Header.Set" /\ last.calls[i].key = CanonicalMIMEHeaderKey(k)}

\* resp.Header.Get(k): the value of the last Set on k, "" when k was never set
ResponseHeaderGet(k) == IF HeaderSets(k) = {} THEN "" ELSE last.calls[Max(HeaderSets(k))].val

(* ------------------------------- claims -------------------------------- *)

IsDispatch == last.op = "handleRequest"

\* the last dispatch resolved to a rule without Handler
IsStatic == IsDispatch /\ last.resp.ptr # 0 /\ last.resp.Handler = Nil

\* registration indices of the rules with the method and path of the last request
SamePair == {i \in 1..Len(registered) :
                /\ registered[i].Method = last.req.Method
                /\ registered[i].Path = last.req.Path}
EmptyQueryRules == {i \in SamePair : registered[i].Query = ""}
SameQueryRules == {i \in SamePair : registered[i].Query = last.req.RawQuery}

C2_EveryQueryRuleResolved ==
    (IsDispatch /\ last.req.RawQuery # "") =>
        \A i \in SameQueryRules : last.resp = registered[i]

\* C2 (amended): such a request is resolved to the first-registered rule of the
\* bucket whose Query equals the raw query, ahead of every empty-query rule.
C2_FirstQueryRuleResolved ==
    (IsDispatch /\ last.req.RawQuery # "" /\ SameQueryRules # {}) =>
        last.resp = registered[Min(SameQueryRules)]

\* C2 witness: the bucket holds an empty-query rule and the query rule answers
C2_Witness ==
    /\ IsDispatch /\ last.req.RawQuery = "dummy=1"
    /\ EmptyQueryRules # {}
    /\ last.resp.ptr \in SameQueryRules

\* C3 (as claimed): a request whose non-empty raw query matches no rule of the
\* bucket falls back to the first-inserted empty-query rule of the bucket.
C3_FirstEmptyQueryRuleIsFallback ==
    (IsDispatch /\ last.req.RawQuery # "" /\ SameQueryRules = {} /\ EmptyQueryRules # {}) =>
        last.resp = registered[Min(EmptyQueryRules)]

\* C3 (amended): such a request falls back to the last-inserted empty-query rule.
C3_LastEmptyQueryRuleIsFallback ==
    (IsDispatch /\ last.req.RawQuery # "" /\ SameQueryRules = {} /\ EmptyQueryRules # {}) =>
        last.resp = registered[Max(EmptyQueryRules)]

\* C3 witness: an unmatched query falls back while a query rule sits in the bucket
C3_Witness ==
    /\ IsDispatch /\ last.req.RawQuery = "dummy=2"
    /\ \E i \in SamePair : registered[i].Query = "dummy=1"
    /\ EmptyQueryRules # {}
    /\ last.resp.ptr = Max(EmptyQueryRules)

\* C4: for a request whose (method, path) has no registered rule the dispatcher
\* calls UnknownRequestHandler exactly once when it is set and writes nothing
\* itself; when it is not set nothing is written at all (status 200, empty
\* body); no rule's Handler or static fields are used.
C4_UnknownRequest ==
    (IsDispatch /\ SamePair = {}) =>
        /\ last.resp = NilResponse
        /\ NonLogCalls = (IF UnknownRequestHandler # Nil
                          THEN <<Call("UnknownRequestHandler", UnknownRequestHandler, "", 0)>>
                          ELSE <<>>)
        /\ UnknownRequestHandler = Nil => (ResponseStatus = 200 /\ ResponseBody = <<>>)

\* C4 witness: rules are registered, the request hits none, the handler ran
C4_Witness ==
    /\ IsDispatch /\ SamePair = {} /\ registered # <<>>
    /\ UnknownRequestHandler # Nil
    /\ Len(CallsOf("UnknownRequestHandler")) = 1

\* C5: when the resolved rule has a Handler the dispatcher calls it exactly once
\* and makes no other call (no header, status, body), whatever static fields
\* the rule has.
C5_HandlerWins ==
    (IsDispatch /\ last.resp.ptr # 0 /\ last.resp.Handler # Nil) =>
        last.calls = <<Call("Handler", last.resp.Handler, "", 0)>>

\* C5 witness: a rule with Handler and Code, ContentType, Body, Headers answers
C5_Witness ==
    /\ IsDispatch /\ last.resp.ptr # 0 /\ last.resp.Handler # Nil
    /\ last.resp.Code # 0 /\ last.resp.ContentType # "" /\ last.resp.Body # ""
    /\ DOMAIN last.resp.Headers # {}
    /\ Len(CallsOf("Handler")) = 1

\* C6 (as claimed): when a static rule is resolved, every key k of its Headers
\* mapping, written in canonical MIME case or not, is a header of the response
\* with the first value stored under k, and distinct keys of the mapping do not
\* collide on the response.
C6_HeadersCopied ==
    IsStatic =>
        /\ \A k \in DOMAIN last.resp.Headers :
              /\ HeaderSets(k) # {}
              /\ ResponseHeaderGet(k) = last.resp.Headers[k][1]
        /\ \A k1, k2 \in DOMAIN last.resp.Headers :
              k1 # k2 => CanonicalMIMEHeaderKey(k1) # CanonicalMIMEHeaderKey(k2)

\* C7 (as claimed): when a static rule is resolved the Content-Type of the
\* response equals the rule's ContentType, whatever its Headers mapping holds.
C7_ContentTypeAlways ==
    IsStatic =>
        /\ HeaderSets("Content-Type") # {}
        /\ ResponseHeaderGet("Content-Type") = last.resp.ContentType

\* C7 (amended): when a static rule is resolved and no key of its Headers
\* mapping canonicalises to Content-Type, the Content-Type of the response is
\* set to the rule's ContentType, the empty string included.
C7_ContentTypeUnlessOverridden ==
    (IsStatic /\ \A k \in DOMAIN last.resp.Headers :
                     CanonicalMIMEHeaderKey(k) # "Content-Type") =>
        /\ HeaderSets("Content-Type") # {}
        /\ ResponseHeaderGet("Content-Type") = last.resp.ContentType

\* C7 witness: a static rule with other headers and an empty ContentType answers
C7_Witness ==
    /\ IsStatic
    /\ last.resp.ContentType = ""
    /\ DOMAIN last.resp.Headers # {}
    /\ HeaderSet("Content-Type", "") \in {last.calls[i] : i \in 1..Len(last.calls)}

\* C8: a Close call never fails; on a started server it leaves the inner server
\* closed, on an already closed one it changes nothing, on a Server that was
\* never started it is a no-op; further Close calls, registrations, field
\* writes and dispatches keep a closed server closed.
C8_CloseIdempotent ==
    [][/\ last'.op = "Close" =>
            /\ ~panicked'
            /\ Server = Nil => Server' = Nil
            /\ Server # Nil => Server' = "closed"
            /\ Server \in {Nil, "closed"} =>
                  UNCHANGED <<Server, Responses, URL, Logger,
                              UnknownRequestHandler, registered, panicked>>
       /\ (Server = "closed" /\ last'.op # "Start") => Server' = "closed"]_vars

\* C8 witness: a launched server with rules has been closed
C8_Witness ==
    /\ last.op = "Close" /\ Server = "closed"
    /\ registered # <<>> /\ ~panicked

\* C9 (as claimed): a rule whose Method or Path is empty is never the rule a
\* request resolves to, and registering rules never fails on a launched server.
C9_EmptyKeyNeverMatches ==
    /\ (IsDispatch /\ last.resp.ptr # 0) =>
           (last.resp.Method # "" /\ last.resp.Path # "")
    /\ panicked => Responses.isNil

\* C9 (amended): a rule whose Method is empty is never the rule a request
\* resolves to; a rule whose Path is empty is resolved only for requests of its
\* method whose path is empty too; registering such a rule on a launched
\* server never fails.
C9_EmptyMethodNeverMatches ==
    /\ (IsDispatch /\ last.resp.ptr # 0) =>
           /\ last.resp.Method # ""
           /\ last.resp.Path = "" => last.req.Path = ""
    /\ panicked => Responses.isNil

\* C9 witness: rules with an empty Method and an empty Path are registered
\* without failure and a request with an empty path resolves to the latter
C9_Witness ==
    /\ \E i \in 1..Len(registered) : registered[i].Method = ""
    /\ ~panicked
    /\ IsDispatch /\ last.req.Path = ""
    /\ last.resp.ptr # 0 /\ last.resp.Path = ""

\* C10: with a Logger set, a dispatch resolved to a static rule makes exactly
\* one Logf call, "handler : %s %s -> %+v", after the body is written, and a
\* dispatch of an unmatched request makes exactly one, "unknown request: %s %s",
\* before the unknown-request handler runs; with no Logger there is no Logf
\* call and the other calls are the same ones.
C10_LogLines ==
    /\ IsStatic =>
          /\ CallsOf("Logf") = (IF Logger # Nil
                                THEN <<Call("Logf", "handler : %s %s -> %+v", "", 0)>>
                                ELSE <<>>)
          /\ last.calls = NonLogCalls \o CallsOf("Logf")
          /\ NonLogCalls[Len(NonLogCalls)] = Call("WriteString", "", last.resp.Body, 0)
    /\ (IsDispatch /\ last.resp.ptr = 0) =>
          /\ CallsOf("Logf") = (IF Logger # Nil
                                THEN <<Call("Logf", "unknown request: %s %s", "", 0)>>
                                ELSE <<>>)
          /\ last.calls = CallsOf("Logf") \o NonLogCalls
          /\ NonLogCalls = CallsOf("UnknownRequestHandler")
          /\ Len(NonLogCalls) = (IF UnknownRequestHandler # Nil THEN 1 ELSE 0)

\* C10 witness: a logged static dispatch
C10_Witness ==
    /\ IsStatic /\ Logger # Nil
    /\ Len(last.calls) >= 3
    /\ last.calls[Len(last.calls)].op = "Logf"
    /\ last.calls[Len(last.calls) - 1].op = "WriteString"

\* every method and path a rule or a request of the model can carry
AllMethods == ReqMethods \cup AddMethods \cup {r.Method : r \in Pool} \cup DOMAIN Responses.m
AllPaths == ReqPaths \cup AddPaths \cup {r.Path : r \in Pool}
               \cup UNION {DOMAIN Responses.m[k] : k \in DOMAIN Responses.m}

\* the rules of a registration history with the given method and path, in order
RulesOf(history, method, path) ==
    SelectSeq(history, LAMBDA r : r.Method = method /\ r.Path = path)

\* C11: in every reachable state the bucket of every (method, path) is the
\* sequence of the rules registered so far with that method and path, in
\* registration order; a step that registers rules keeps the earlier history
\* and extends each bucket by exactly the new rules of its own (method, path),
\* one entry per rule, leaving every earlier entry in place; a dispatch,
\* matched or not, and every other step change no bucket.
C11_BucketsAreRegistrationHistory ==
    /\ [](\A method \in AllMethods, path \in AllPaths :
             Bucket(Responses, method, path) = RulesOf(registered, method, path))
    /\ [][/\ Len(registered') >= Len(registered)
          /\ SubSeq(registered', 1, Len(registered)) = registered
          /\ \A i \in 1..Len(registered') : registered'[i].ptr = i
          /\ \A method \in AllMethods, path \in AllPaths :
                Bucket(Responses', method, path) =
                    Bucket(Responses, method, path)
                    \o RulesOf(SubSeq(registered', Len(registered) + 1, Len(registered')),
                               method, path)
          /\ last'.op \notin {"Launch", "AddResponses", "Add", "AddEmptyResponse"} =>
                UNCHANGED <<Responses, registered>>]_vars

\* C11 witness: after Launch with a rule of one bucket, Add extended another
\* bucket, and a dispatch then left both as they were
C11_Witness ==
    /\ IsDispatch
    /\ Len(registered) = 2
    /\ registered[1].Path = "" /\ registered[2].Path = "/hello"
    /\ Bucket(Responses, "GET", "") = <<registered[1]>>
    /\ Bucket(Responses, "GET", "/hello") = <<registered[2]>>

====
